---- MODULE Spec2Model ----
(***************************************************************************)
(* Model of the hal-simplicity daemon: the JSON-RPC 2.0 engine             *)
(* (src/daemon/jsonrpc/mod.rs), the default handler                        *)
(* (src/daemon/handler.rs) and the daemon runtime (src/daemon/mod.rs).     *)
(***************************************************************************)
EXTENDS Integers, Sequences, FiniteSets, TLC

(***************************************************************************)
(* Bounds of the model.                                                    *)
(***************************************************************************)
\* largest number of members of a JSON array body
MaxBatch == 3
\* request ids are the JSON numbers 1..MaxId
MaxId == 2

(***************************************************************************)
(* serde_json::Value, Option<T>, Result<T, E>.                             *)
(***************************************************************************)
JNull == [t |-> "null", n |-> 0, s |-> ""]
JNum(i) == [t |-> "num", n |-> i, s |-> ""]
JStr(x) == [t |-> "str", n |-> 0, s |-> x]
JObj(i) == [t |-> "obj", n |-> i, s |-> ""]

None == << >>
Some(v) == << v >>
IsSome(o) == o # << >>
IsNone(o) == o = << >>
Unwrap(o) == o[1]

(***************************************************************************)
(* ErrorCode and RpcError.                                                 *)
(***************************************************************************)
ParseError == -32700
InvalidRequest == -32600
MethodNotFound == -32601
InvalidParams == -32602
InternalError == -32603

ErrorCode_message(code) ==
    CASE code = ParseError -> "Parse error"
      [] code = InvalidRequest -> "Invalid Request"
      [] code = MethodNotFound -> "Method not found"
      [] code = InvalidParams -> "Invalid params"
      [] code = InternalError -> "Internal error"

RpcError_new(error_code) ==
    [code |-> error_code, message |-> ErrorCode_message(error_code), data |-> None]

RpcError_with_data(e, data) == [e EXCEPT !.data = Some(data)]

RpcError_custom(code, message) == [code |-> code, message |-> message, data |-> None]

\* placeholders for the unused side of a Result
NoError == [code |-> 0, message |-> "", data |-> None]

Ok(v) == [ok |-> TRUE, val |-> v, err |-> NoError]
Err(e) == [ok |-> FALSE, val |-> JNull, err |-> e]

(***************************************************************************)
(* Request bodies.  A body is malformed text, one JSON value, or a JSON    *)
(* array of JSON values.  A JSON value ("item") is an object with the      *)
(* four request members present or absent, the positional form             *)
(* [jsonrpc, method, params, id], or the number 7.                         *)
(***************************************************************************)
Item(form, jsonrpc, method, params, id) ==
    [form |-> form, jsonrpc |-> jsonrpc, method |-> method, params |-> params, id |-> id]

ScalarItem == Item("scalar", None, None, None, None)

IdFields == {None, Some(JNull)} \cup {Some(JNum(i)) : i \in 1..MaxId}

ObjectItems ==
    { Item("object", j, m, p, i) :
        j \in {None, Some(JStr("2.0")), Some(JStr("1.0")), Some(JNum(2))},
        m \in {None, Some(JStr("")), Some(JStr("tx_decode")),
               Some(JStr("keypair_generate")), Some(JStr("echo"))},
        p \in {None, Some(JNull), Some(JObj(0)), Some(JObj(-1)), Some(JNum(5))},
        i \in IdFields }

TupleItems ==
    { Item("tuple", j, m, p, i) :
        j \in {Some(JStr("2.0")), Some(JStr("1.0"))},
        m \in {Some(JStr("")), Some(JStr("tx_decode")), Some(JStr("echo"))},
        p \in {Some(JNull), Some(JObj(0))},
        i \in IdFields \ {None} }

\* members of array bodies: valid requests, the three kinds of invalid
\* request, and a value that is no request
BatchItems ==
    { Item("object", Some(JStr("2.0")), Some(JStr(m)), Some(JObj(0)), i) :
        m \in {"tx_decode", "echo"}, i \in IdFields }
    \cup { Item("object", Some(JStr("1.0")), Some(JStr("tx_decode")), None, Some(JNum(1))),
           Item("object", Some(JStr("2.0")), Some(JStr("")), None, None),
           Item("object", Some(JStr("1.0")), Some(JStr("")), None, Some(JNum(1))),
           ScalarItem }

SeqsUpTo(S, n) == UNION { [1..k -> S] : k \in 0..n }

Body(kind, items) == [kind |-> kind, items |-> items]

Bodies ==
    { Body("malformed", << >>) }
    \cup { Body("single", << it >>) : it \in ObjectItems \cup TupleItems \cup {ScalarItem} }
    \cup { Body("array", its) : its \in SeqsUpTo(BatchItems, MaxBatch) }

(***************************************************************************)
(* Deserialization (serde derive on RpcRequest).                           *)
(***************************************************************************)
\* a String member: must be present and a JSON string
DeString(field) == IF IsSome(field) /\ Unwrap(field).t = "str" THEN Some(Unwrap(field).s) ELSE None

\* an Option<Value> member: absent and null both give None
DeOption(field) == IF IsSome(field) /\ Unwrap(field) # JNull THEN Some(Unwrap(field)) ELSE None

\* Deserialize for RpcRequest: Some(request) or None on a serde error
DeRequest(item) ==
    IF /\ item.form \in {"object", "tuple"}
       /\ IsSome(DeString(item.jsonrpc))
       /\ IsSome(DeString(item.method))
       /\ (item.form = "tuple" => IsSome(item.params) /\ IsSome(item.id))
    THEN Some([jsonrpc |-> Unwrap(DeString(item.jsonrpc)),
               method |-> Unwrap(DeString(item.method)),
               params |-> DeOption(item.params),
               id |-> DeOption(item.id)])
    ELSE None

\* serde_json::from_str::<RpcRequest>(json)
ParseRequest(json) ==
    IF json.kind = "single" THEN DeRequest(json.items[1]) ELSE None

\* serde_json::from_str::<Vec<RpcRequest>>(json)
ParseVec(json) ==
    IF json.kind = "array" /\ \A k \in 1..Len(json.items) : IsSome(DeRequest(json.items[k]))
    THEN Some([k \in 1..Len(json.items) |-> Unwrap(DeRequest(json.items[k]))])
    ELSE None

(***************************************************************************)
(* RpcRequest.                                                             *)
(***************************************************************************)
is_notification(request) == IsNone(request.id)

\* validate with the two checks in the other order
Mut_validate_method_first(request) ==
    IF request.method = ""
    THEN Err(RpcError_with_data(RpcError_new(InvalidRequest), JStr("method field cannot be empty")))
    ELSE IF request.jsonrpc # "2.0"
    THEN Err(RpcError_with_data(RpcError_new(InvalidRequest), JStr("jsonrpc field must be '2.0'")))
    ELSE Ok(JNull)

validate(request) ==
    IF request.jsonrpc # "2.0"
    THEN Err(RpcError_with_data(RpcError_new(InvalidRequest), JStr("jsonrpc field must be '2.0'")))
    ELSE IF request.method = ""
    THEN Err(RpcError_with_data(RpcError_new(InvalidRequest), JStr("method field cannot be empty")))
    ELSE Ok(JNull)

(***************************************************************************)
(* RpcCall::from_json.                                                     *)
(***************************************************************************)
CallOk(tag, requests) == [ok |-> TRUE, tag |-> tag, requests |-> requests, err |-> NoError]
CallErr(e) == [ok |-> FALSE, tag |-> "", requests |-> << >>, err |-> e]

\* reports the last invalid request instead of the first
Mut_FirstInvalid_last(requests) ==
    LET bad == { k \in 1..Len(requests) : ~validate(requests[k]).ok }
    IN IF bad = {} THEN 0 ELSE CHOOSE k \in bad : \A l \in bad : k >= l

\* index of the first request that fails validate, 0 when none does
FirstInvalid(requests) ==
    LET bad == { k \in 1..Len(requests) : ~validate(requests[k]).ok }
    IN IF bad = {} THEN 0 ELSE CHOOSE k \in bad : \A l \in bad : k <= l

\* from_json_batch without the check for an empty batch
Mut_from_json_batch_allow_empty(requests) ==
    IF FirstInvalid(requests) # 0
    THEN CallErr(validate(requests[FirstInvalid(requests)]).err)
    ELSE CallOk("Batch", requests)

\* the Ok(requests) arm: a batch must be non-empty and every member valid
from_json_batch(requests) ==
    IF requests = << >>
    THEN CallErr(RpcError_with_data(RpcError_new(InvalidRequest),
                                    JStr("batch request cannot be empty")))
    ELSE IF FirstInvalid(requests) # 0
    THEN CallErr(validate(requests[FirstInvalid(requests)]).err)
    ELSE CallOk("Batch", requests)

\* from_json reporting text it cannot parse as an invalid request
Mut_from_json_invalid_request(json) ==
    IF IsSome(ParseRequest(json))
    THEN LET request == Unwrap(ParseRequest(json))
         IN IF validate(request).ok
            THEN CallOk("Single", << request >>)
            ELSE CallErr(validate(request).err)
    ELSE IF IsSome(ParseVec(json))
    THEN from_json_batch(Unwrap(ParseVec(json)))
    ELSE CallErr(RpcError_with_data(RpcError_new(InvalidRequest), JStr("not a request")))

from_json(json) ==
    IF IsSome(ParseRequest(json))
    THEN LET request == Unwrap(ParseRequest(json))
         IN IF validate(request).ok
            THEN CallOk("Single", << request >>)
            ELSE CallErr(validate(request).err)
    ELSE IF IsSome(ParseVec(json))
    THEN from_json_batch(Unwrap(ParseVec(json)))
    ELSE CallErr(RpcError_new(ParseError))

(***************************************************************************)
(* DefaultRpcHandler.                                                      *)
(***************************************************************************)
RpcMethodNames ==
    {"address_create", "address_inspect", "block_create", "block_decode",
     "tx_create", "tx_decode", "keypair_generate", "simplicity_info",
     "simplicity_sighash", "pset_create", "pset_extract", "pset_finalize",
     "pset_run", "pset_update_input"}

\* from_str reporting an unknown name with the wrong error code
Mut_RpcMethod_from_str_invalid_params(s) ==
    IF s \in RpcMethodNames THEN Ok(JStr(s)) ELSE Err(RpcError_new(InvalidParams))

RpcMethod_from_str(s) ==
    IF s \in RpcMethodNames THEN Ok(JStr(s)) ELSE Err(RpcError_new(MethodNotFound))

\* the typed request of a method deserializes from JSON objects only
parse_params(params) ==
    IF IsNone(params)
    THEN Err(RpcError_custom(InvalidParams, "Missing parameters"))
    ELSE IF Unwrap(params).t # "obj"
    THEN Err(RpcError_custom(InvalidParams, "Invalid parameters"))
    ELSE Ok(Unwrap(params))

\* the value a method computes, as a function of the method and its request
JRes(method, n) == [t |-> "res", n |-> n, s |-> method]

serialize_result(result) == Ok(result)

\* the domain operation behind a method: it fails on the request objects
\* numbered below 0 and computes a value from every other one
actions(method, req) ==
    IF req.n >= 0 THEN Ok(JRes(method, req.n)) ELSE Err(RpcError_custom(InternalError, "action failed"))

handle(method, params) ==
    IF ~RpcMethod_from_str(method).ok
    THEN Err(RpcMethod_from_str(method).err)
    ELSE IF method = "keypair_generate"
    THEN serialize_result(JRes(method, 0))
    ELSE IF ~parse_params(params).ok
    THEN Err(parse_params(params).err)
    ELSE IF ~actions(method, parse_params(params).val).ok
    THEN Err(actions(method, parse_params(params).val).err)
    ELSE serialize_result(actions(method, parse_params(params).val).val)

(***************************************************************************)
(* RpcResponse and JsonRpcService.                                         *)
(***************************************************************************)
\* RpcResponse::error dropping the id it is given
Mut_RpcResponse_error_null_id(error, id) ==
    [jsonrpc |-> "2.0", result |-> None, error |-> Some(error), id |-> JNull]

RpcResponse_success(result, id) ==
    [jsonrpc |-> "2.0", result |-> Some(result), error |-> None, id |-> id]

RpcResponse_error(error, id) ==
    [jsonrpc |-> "2.0", result |-> None, error |-> Some(error), id |-> id]

\* one invocation of the handler, as recorded in the invocation log
Invocation(request) == [method |-> request.method, params |-> request.params]

\* handle_single answering with a null id
Mut_handle_single_null_id(request) ==
    IF is_notification(request)
    THEN [response |-> None, invoked |-> << Invocation(request) >>]
    ELSE LET r == handle(request.method, request.params)
         IN [response |-> Some(IF r.ok THEN RpcResponse_success(r.val, JNull)
                                        ELSE RpcResponse_error(r.err, JNull)),
             invoked |-> << Invocation(request) >>]

\* handle_single reporting the failure of a notification
Mut_handle_single_notify_error(request) ==
    LET id == IF IsSome(request.id) THEN Unwrap(request.id) ELSE JNull
        r == handle(request.method, request.params)
    IN [response |-> IF r.ok
                     THEN (IF is_notification(request) THEN None
                           ELSE Some(RpcResponse_success(r.val, id)))
                     ELSE Some(RpcResponse_error(r.err, id)),
        invoked |-> << Invocation(request) >>]

\* handle_single rebuilding the handler's error from its code alone
Mut_handle_single_reinterpret(request) ==
    IF is_notification(request)
    THEN [response |-> None, invoked |-> << Invocation(request) >>]
    ELSE LET id == IF IsSome(request.id) THEN Unwrap(request.id) ELSE JNull
             r == handle(request.method, request.params)
         IN [response |-> Some(IF r.ok THEN RpcResponse_success(r.val, id)
                                        ELSE RpcResponse_error(RpcError_new(r.err.code), id)),
             invoked |-> << Invocation(request) >>]

\* [response: Option<RpcResponse>, invoked: the handler invocations made]
handle_single(request) ==
    IF is_notification(request)
    THEN [response |-> None, invoked |-> << Invocation(request) >>]
    ELSE LET id == IF IsSome(request.id) THEN Unwrap(request.id) ELSE JNull
             r == handle(request.method, request.params)
         IN [response |-> Some(IF r.ok THEN RpcResponse_success(r.val, id)
                                        ELSE RpcResponse_error(r.err, id)),
             invoked |-> << Invocation(request) >>]

\* handle_batch collecting the responses in reverse order
RECURSIVE Mut_handle_batch_reversed(_)
Mut_handle_batch_reversed(requests) ==
    IF requests = << >>
    THEN [responses |-> << >>, invoked |-> << >>]
    ELSE LET h == handle_single(Head(requests))
             rest == Mut_handle_batch_reversed(Tail(requests))
         IN [responses |-> rest.responses \o h.response,
             invoked |-> h.invoked \o rest.invoked]

\* handle_batch giving up at the first request whose handler fails
RECURSIVE Mut_handle_batch_stop_on_error(_)
Mut_handle_batch_stop_on_error(requests) ==
    IF requests = << >>
    THEN [responses |-> << >>, invoked |-> << >>]
    ELSE LET h == handle_single(Head(requests))
             failed == ~handle(Head(requests).method, Head(requests).params).ok
             rest == IF failed THEN [responses |-> << >>, invoked |-> << >>]
                     ELSE Mut_handle_batch_stop_on_error(Tail(requests))
         IN [responses |-> h.response \o rest.responses,
             invoked |-> h.invoked \o rest.invoked]

\* filter_map over the requests in order
RECURSIVE handle_batch(_)
handle_batch(requests) ==
    IF requests = << >>
    THEN [responses |-> << >>, invoked |-> << >>]
    ELSE LET h == handle_single(Head(requests))
             rest == handle_batch(Tail(requests))
         IN [responses |-> h.response \o rest.responses,
             invoked |-> h.invoked \o rest.invoked]

(***************************************************************************)
(* Serialization (serde derive on RpcResponse / RpcError): a member that   *)
(* is None is left out of the object.                                      *)
(***************************************************************************)
NoErrorJson == [keys |-> {}, code |-> 0, message |-> "", data |-> JNull]

SerError(e) ==
    [keys |-> {"code", "message"} \cup (IF IsSome(e.data) THEN {"data"} ELSE {}),
     code |-> e.code,
     message |-> e.message,
     data |-> IF IsSome(e.data) THEN Unwrap(e.data) ELSE JNull]

SerResponse(r) ==
    [keys |-> {"jsonrpc", "id"}
                \cup (IF IsSome(r.result) THEN {"result"} ELSE {})
                \cup (IF IsSome(r.error) THEN {"error"} ELSE {}),
     jsonrpc |-> r.jsonrpc,
     result |-> IF IsSome(r.result) THEN Unwrap(r.result) ELSE JNull,
     error |-> IF IsSome(r.error) THEN SerError(Unwrap(r.error)) ELSE NoErrorJson,
     id |-> r.id]

\* the text handle_raw returns: "", one JSON object, or a JSON array
EmptyString == [kind |-> "empty", elems |-> << >>]
ObjectString(r) == [kind |-> "object", elems |-> << SerResponse(r) >>]
\* a batch output that unwraps a lone response into a bare object
Mut_ArrayString_unwrap_lone(rs) ==
    IF Len(rs) = 1 THEN ObjectString(rs[1])
    ELSE [kind |-> "array", elems |-> [k \in 1..Len(rs) |-> SerResponse(rs[k])]]
ArrayString(rs) == [kind |-> "array", elems |-> [k \in 1..Len(rs) |-> SerResponse(rs[k])]]

\* handle_raw validating each member of a batch only when its turn comes:
\* the members before the first invalid one have been dispatched by then
Mut_handle_raw_validate_lazily(json) ==
    LET call == from_json(json)
    IN IF call.ok
       THEN IF call.tag = "Single"
            THEN LET h == handle_single(call.requests[1])
                 IN [out |-> IF IsSome(h.response) THEN ObjectString(Unwrap(h.response))
                                                   ELSE EmptyString,
                     invoked |-> h.invoked]
            ELSE LET b == handle_batch(call.requests)
                 IN [out |-> IF b.responses = << >> THEN EmptyString
                                                    ELSE ArrayString(b.responses),
                     invoked |-> b.invoked]
       ELSE [out |-> ObjectString(RpcResponse_error(call.err, JNull)),
             invoked |-> IF IsSome(ParseVec(json)) /\ FirstInvalid(Unwrap(ParseVec(json))) > 1
                         THEN handle_batch(SubSeq(Unwrap(ParseVec(json)), 1,
                                  FirstInvalid(Unwrap(ParseVec(json))) - 1)).invoked
                         ELSE << >>]

\* serde_json::to_string of a response never fails (every map key is a
\* string), so the InternalError fallbacks of handle_raw are unreachable
handle_raw(json) ==
    LET call == from_json(json)
    IN IF call.ok
       THEN IF call.tag = "Single"
            THEN LET h == handle_single(call.requests[1])
                 IN [out |-> IF IsSome(h.response) THEN ObjectString(Unwrap(h.response))
                                                   ELSE EmptyString,
                     invoked |-> h.invoked]
            ELSE LET b == handle_batch(call.requests)
                 IN [out |-> IF b.responses = << >> THEN EmptyString
                                                    ELSE ArrayString(b.responses),
                     invoked |-> b.invoked]
       ELSE [out |-> ObjectString(RpcResponse_error(call.err, JNull)), invoked |-> << >>]

(***************************************************************************)
(* HTTP transport: handle_request.                                         *)
(***************************************************************************)
OK == 200
NO_CONTENT == 204
BAD_REQUEST == 400
NOT_FOUND == 404
METHOD_NOT_ALLOWED == 405

canonical_reason(status) ==
    CASE status = OK -> "OK"
      [] status = NO_CONTENT -> "No Content"
      [] status = BAD_REQUEST -> "Bad Request"
      [] status = NOT_FOUND -> "Not Found"
      [] status = METHOD_NOT_ALLOWED -> "Method Not Allowed"

\* an HTTP request: its method, its path and its body (whether it can be
\* collected, whether it is UTF-8, and the text it holds)
HttpRequest(method, path, readable, utf8, text) ==
    [method |-> method, path |-> path, readable |-> readable, utf8 |-> utf8, text |-> text]

\* an HTTP response: a status, the Content-Type header if any, and a body
\* that is plain text or the JSON text of the service
HttpResponse(status, content_type, text, json) ==
    [status |-> status, content_type |-> content_type, text |-> text, json |-> json]

create_status_response(status) ==
    HttpResponse(status, None,
                 IF status = NO_CONTENT THEN "" ELSE canonical_reason(status),
                 EmptyString)

create_json_response(body) == HttpResponse(OK, Some("application/json"), "", body)

\* Ok(text) or Err(status)
read_body_as_string(req) ==
    IF ~req.readable THEN [ok |-> FALSE, text |-> req.text, status |-> BAD_REQUEST]
    ELSE IF ~req.utf8 THEN [ok |-> FALSE, text |-> req.text, status |-> BAD_REQUEST]
    ELSE [ok |-> TRUE, text |-> req.text, status |-> OK]

\* handle_request answering a JSON-RPC error object with status 400
Mut_handle_request_error_status(req) ==
    IF req.method # "POST"
    THEN [response |-> create_status_response(METHOD_NOT_ALLOWED),
          body_read |-> FALSE, dispatched |-> FALSE, invoked |-> << >>]
    ELSE IF req.path # "/rpc" /\ req.path # "/"
    THEN [response |-> create_status_response(NOT_FOUND),
          body_read |-> FALSE, dispatched |-> FALSE, invoked |-> << >>]
    ELSE IF ~read_body_as_string(req).ok
    THEN [response |-> create_status_response(read_body_as_string(req).status),
          body_read |-> TRUE, dispatched |-> FALSE, invoked |-> << >>]
    ELSE LET r == handle_raw(read_body_as_string(req).text)
         IN [response |-> IF r.out.kind = "empty"
                          THEN create_status_response(NO_CONTENT)
                          ELSE IF r.out.kind = "object" /\ "error" \in r.out.elems[1].keys
                          THEN create_status_response(BAD_REQUEST)
                          ELSE create_json_response(r.out),
             body_read |-> TRUE, dispatched |-> TRUE, invoked |-> r.invoked]

\* handle_request checking the path before the method
Mut_handle_request_path_first(req) ==
    IF req.path # "/rpc" /\ req.path # "/"
    THEN [response |-> create_status_response(NOT_FOUND),
          body_read |-> FALSE, dispatched |-> FALSE, invoked |-> << >>]
    ELSE IF req.method # "POST"
    THEN [response |-> create_status_response(METHOD_NOT_ALLOWED),
          body_read |-> FALSE, dispatched |-> FALSE, invoked |-> << >>]
    ELSE IF ~read_body_as_string(req).ok
    THEN [response |-> create_status_response(read_body_as_string(req).status),
          body_read |-> TRUE, dispatched |-> FALSE, invoked |-> << >>]
    ELSE LET r == handle_raw(read_body_as_string(req).text)
         IN [response |-> IF r.out.kind = "empty"
                          THEN create_status_response(NO_CONTENT)
                          ELSE create_json_response(r.out),
             body_read |-> TRUE, dispatched |-> TRUE, invoked |-> r.invoked]

\* handle_request accepting a trailing slash after /rpc
Mut_handle_request_trailing_slash(req) ==
    IF req.method # "POST"
    THEN [response |-> create_status_response(METHOD_NOT_ALLOWED),
          body_read |-> FALSE, dispatched |-> FALSE, invoked |-> << >>]
    ELSE IF req.path # "/rpc" /\ req.path # "/rpc/" /\ req.path # "/"
    THEN [response |-> create_status_response(NOT_FOUND),
          body_read |-> FALSE, dispatched |-> FALSE, invoked |-> << >>]
    ELSE IF ~read_body_as_string(req).ok
    THEN [response |-> create_status_response(read_body_as_string(req).status),
          body_read |-> TRUE, dispatched |-> FALSE, invoked |-> << >>]
    ELSE LET r == handle_raw(read_body_as_string(req).text)
         IN [response |-> IF r.out.kind = "empty"
                          THEN create_status_response(NO_CONTENT)
                          ELSE create_json_response(r.out),
             body_read |-> TRUE, dispatched |-> TRUE, invoked |-> r.invoked]

\* handle_request decoding the body lossily instead of rejecting it
Mut_handle_request_lossy_body(req) ==
    IF req.method # "POST"
    THEN [response |-> create_status_response(METHOD_NOT_ALLOWED),
          body_read |-> FALSE, dispatched |-> FALSE, invoked |-> << >>]
    ELSE IF req.path # "/rpc" /\ req.path # "/"
    THEN [response |-> create_status_response(NOT_FOUND),
          body_read |-> FALSE, dispatched |-> FALSE, invoked |-> << >>]
    ELSE IF ~req.readable
    THEN [response |-> create_status_response(BAD_REQUEST),
          body_read |-> TRUE, dispatched |-> FALSE, invoked |-> << >>]
    ELSE LET r == handle_raw(req.text)
         IN [response |-> IF r.out.kind = "empty"
                          THEN create_status_response(NO_CONTENT)
                          ELSE create_json_response(r.out),
             body_read |-> TRUE, dispatched |-> TRUE, invoked |-> r.invoked]

\* [response, body_read: whether the body was collected, dispatched: whether
\*  handle_raw was called, invoked: the handler invocations made]
handle_request(req) ==
    IF req.method # "POST"
    THEN [response |-> create_status_response(METHOD_NOT_ALLOWED),
          body_read |-> FALSE, dispatched |-> FALSE, invoked |-> << >>]
    ELSE IF req.path # "/rpc" /\ req.path # "/"
    THEN [response |-> create_status_response(NOT_FOUND),
          body_read |-> FALSE, dispatched |-> FALSE, invoked |-> << >>]
    ELSE IF ~read_body_as_string(req).ok
    THEN [response |-> create_status_response(read_body_as_string(req).status),
          body_read |-> TRUE, dispatched |-> FALSE, invoked |-> << >>]
    ELSE LET r == handle_raw(read_body_as_string(req).text)
         IN [response |-> IF r.out.kind = "empty"
                          THEN create_status_response(NO_CONTENT)
                          ELSE create_json_response(r.out),
             body_read |-> TRUE, dispatched |-> TRUE, invoked |-> r.invoked]

(***************************************************************************)
(* State.                                                                  *)
(***************************************************************************)
\* number of client connections
MaxConns == 2
\* number of calls of shutdown()
MaxShutdowns == 2

Conns == 1..MaxConns

VARIABLES
    called,      \* the service called directly: whether handle_raw has returned
    raw,         \* the text handle_raw is called on
    output,      \* the text handle_raw returned
    invocations, \* the handler invocations handle_raw made, in order
    handled,     \* the transport called directly: whether handle_request has returned
    httpIn,      \* the HTTP request handle_request is called on
    httpOut,     \* what handle_request returned for it
    daemon,      \* the HalSimplicityDaemon value: "none", "constructed", "failed", "moved"
    entry,       \* the entry point called and its result
    loop,        \* run_event_loop: "none", "spawned", "select", "deaf", "exited"
    runtime,     \* the tokio runtime: "none", "alive", "dropped"
    signal,      \* whether a shutdown message waits in the loop's receiver
    shutdowns,   \* number of calls of shutdown() so far
    stopRequested, \* whether shutdown() was called after start() returned Ok
    conn,        \* per connection: "idle", "pending", "spawned", "serving", "responded", "cancelled"
    request,     \* per connection: the HTTP request its client sends
    served       \* per connection: what handle_request returned for it

serviceVars == << called, raw, output, invocations >>
httpVars == << handled, httpIn, httpOut >>
rpcVars == << called, raw, output, invocations, handled, httpIn, httpOut >>
daemonVars == << daemon, entry, loop, runtime, signal, shutdowns, stopRequested,
                 conn, request, served >>
vars == << called, raw, output, invocations, handled, httpIn, httpOut, daemon, entry, loop, runtime, signal,
           shutdowns, stopRequested, conn, request, served >>

MalformedBody == Body("malformed", << >>)
NoHttpRequest == HttpRequest("", "", FALSE, FALSE, MalformedBody)
NotServed ==
    [response |-> HttpResponse(0, None, "", EmptyString),
     body_read |-> FALSE, dispatched |-> FALSE, invoked |-> << >>]

\* the requests the client of connection c may send: each carries the id c
SingleBody(m, p, i) == Body("single", << Item("object", Some(JStr("2.0")), Some(JStr(m)), p, i) >>)

RequestsOf(c) ==
    { HttpRequest("POST", "/", TRUE, TRUE, SingleBody("tx_decode", Some(JObj(c)), Some(JNum(c)))),
      HttpRequest("POST", "/rpc", TRUE, TRUE, SingleBody("echo", None, Some(JNum(c)))),
      HttpRequest("POST", "/", TRUE, TRUE, SingleBody("tx_decode", Some(JObj(c)), None)),
      HttpRequest("GET", "/", TRUE, TRUE, SingleBody("tx_decode", Some(JObj(c)), Some(JNum(c)))),
      HttpRequest("POST", "/", TRUE, TRUE, MalformedBody) }

\* the requests that are answered with an error, one of each kind: wrong
\* method, wrong path, body that is not UTF-8, text that is not JSON-RPC,
\* invalid request, unknown method, failure of the handler
FaultyRequestsOf(c) ==
    { HttpRequest("GET", "/", TRUE, TRUE, SingleBody("tx_decode", Some(JObj(c)), Some(JNum(c)))),
      HttpRequest("POST", "/other", TRUE, TRUE, SingleBody("tx_decode", Some(JObj(c)), Some(JNum(c)))),
      HttpRequest("POST", "/rpc", TRUE, FALSE, SingleBody("tx_decode", Some(JObj(c)), Some(JNum(c)))),
      HttpRequest("POST", "/", TRUE, TRUE, MalformedBody),
      HttpRequest("POST", "/rpc", TRUE, TRUE,
                  Body("single", << Item("object", Some(JStr("1.0")), Some(JStr("tx_decode")),
                                         None, Some(JNum(c))) >>)),
      HttpRequest("POST", "/rpc", TRUE, TRUE, SingleBody("echo", None, Some(JNum(c)))),
      HttpRequest("POST", "/", TRUE, TRUE, SingleBody("tx_decode", Some(JObj(-1)), Some(JNum(c)))) }

ServiceIdle ==
    /\ called = FALSE
    /\ raw = MalformedBody
    /\ output = EmptyString
    /\ invocations = << >>

HttpIdle ==
    /\ handled = FALSE
    /\ httpIn = NoHttpRequest
    /\ httpOut = NotServed

RpcIdle == ServiceIdle /\ HttpIdle

DaemonInit ==
    /\ daemon = "none"
    /\ entry = "none"
    /\ loop = "none"
    /\ runtime = "none"
    /\ signal = FALSE
    /\ shutdowns = 0
    /\ stopRequested = FALSE
    /\ conn = [c \in Conns |-> "idle"]
    /\ request = [c \in Conns |-> NoHttpRequest]
    /\ served = [c \in Conns |-> NotServed]

(***************************************************************************)
(* The service called directly on one text, as the unit tests do.          *)
(***************************************************************************)
RpcInit ==
    /\ called = FALSE
    /\ raw \in Bodies
    /\ output = EmptyString
    /\ invocations = << >>
    /\ HttpIdle
    /\ DaemonInit

HandleRaw ==
    /\ ~called
    /\ called' = TRUE
    /\ LET r == handle_raw(raw)
       IN /\ output' = r.out
          /\ invocations' = r.invoked
    /\ UNCHANGED raw
    /\ UNCHANGED httpVars
    /\ UNCHANGED daemonVars

RpcNext == HandleRaw

RpcSpec == RpcInit /\ [][RpcNext]_vars

(***************************************************************************)
(* The transport called directly on one HTTP request.                      *)
(***************************************************************************)
\* the texts of the bodies: every text of at most one JSON value or member
HttpBodies == { b \in Bodies : Len(b.items) <= 1 }

HttpRequests ==
    { HttpRequest(m, p, r, u, t) :
        m \in {"POST", "GET", "PUT"},
        p \in {"/", "/rpc", "/rpc/", "/other"},
        r \in BOOLEAN, u \in BOOLEAN,
        t \in HttpBodies }

HttpInit ==
    /\ handled = FALSE
    /\ httpIn \in HttpRequests
    /\ httpOut = NotServed
    /\ ServiceIdle
    /\ DaemonInit

HandleRequest ==
    /\ ~handled
    /\ handled' = TRUE
    /\ httpOut' = handle_request(httpIn)
    /\ UNCHANGED httpIn
    /\ UNCHANGED serviceVars
    /\ UNCHANGED daemonVars

HttpNext == HandleRequest

HttpSpec == HttpInit /\ [][HttpNext]_vars

(***************************************************************************)
(* HalSimplicityDaemon.                                                    *)
(***************************************************************************)
Init == RpcIdle /\ DaemonInit

\* new(address): the address parses or it does not
New(parses) ==
    /\ daemon = "none"
    /\ daemon' = IF parses THEN "constructed" ELSE "failed"
    /\ UNCHANGED << entry, loop, runtime, signal, shutdowns, stopRequested,
                    conn, request, served >>
    /\ UNCHANGED rpcVars

\* start() spawning the thread first and binding inside it, the bind
\* result being dropped with the thread's
Mut_Start_bind_in_thread(runtimeOk, bindOk) ==
    /\ daemon = "constructed"
    /\ entry = "none"
    /\ IF runtimeOk
       THEN /\ entry' = "start_ok"
            /\ IF bindOk
               THEN /\ loop' = "spawned"
                    /\ runtime' = "alive"
               ELSE UNCHANGED << loop, runtime >>
       ELSE /\ entry' = "start_err"
            /\ UNCHANGED << loop, runtime >>
    /\ UNCHANGED << daemon, signal, shutdowns, stopRequested, conn, request, served >>
    /\ UNCHANGED rpcVars

\* start(): builds the runtime, binds, spawns the thread that will run the
\* loop, and returns; the thread has not subscribed yet.  The model follows
\* one call of an entry point per daemon.
Start(runtimeOk, bindOk) ==
    /\ daemon = "constructed"
    /\ entry = "none"
    /\ IF runtimeOk /\ bindOk
       THEN /\ entry' = "start_ok"
            /\ loop' = "spawned"
            /\ runtime' = "alive"
       ELSE /\ entry' = "start_err"
            /\ UNCHANGED << loop, runtime >>
    /\ UNCHANGED << daemon, signal, shutdowns, stopRequested, conn, request, served >>
    /\ UNCHANGED rpcVars

\* the spawned thread enters block_on and subscribes to the signal
Subscribe ==
    /\ loop = "spawned"
    /\ loop' = "select"
    /\ UNCHANGED << daemon, entry, runtime, signal, shutdowns, stopRequested,
                    conn, request, served >>
    /\ UNCHANGED rpcVars

\* listen_blocking(self): consumes the daemon; builds the runtime, binds,
\* subscribes and runs the loop on the calling thread
ListenBlocking(runtimeOk, bindOk) ==
    /\ daemon = "constructed"
    /\ entry = "none"
    /\ daemon' = "moved"
    /\ IF runtimeOk /\ bindOk
       THEN /\ entry' = "listen_running"
            /\ loop' = "select"
            /\ runtime' = "alive"
       ELSE /\ entry' = "listen_err"
            /\ UNCHANGED << loop, runtime >>
    /\ UNCHANGED << signal, shutdowns, stopRequested, conn, request, served >>
    /\ UNCHANGED rpcVars

\* shutdown() that completes only when a receiver takes the message
Mut_Shutdown_needs_receiver ==
    /\ daemon = "constructed"
    /\ shutdowns < MaxShutdowns
    /\ loop \in {"select", "deaf"}
    /\ shutdowns' = shutdowns + 1
    /\ signal' = TRUE
    /\ stopRequested' = (stopRequested \/ entry = "start_ok")
    /\ UNCHANGED << daemon, entry, loop, runtime, conn, request, served >>
    /\ UNCHANGED rpcVars

\* shutdown(&self): sends on the broadcast channel and ignores the result;
\* the message reaches only a receiver that exists at the time of the send
Shutdown ==
    /\ daemon = "constructed"
    /\ shutdowns < MaxShutdowns
    /\ shutdowns' = shutdowns + 1
    /\ signal' = (signal \/ loop \in {"select", "deaf"})
    /\ stopRequested' = (stopRequested \/ entry = "start_ok")
    /\ UNCHANGED << daemon, entry, loop, runtime, conn, request, served >>
    /\ UNCHANGED rpcVars

\* a client connects to the bound socket and will send req
Connect(c, req) ==
    /\ loop \in {"spawned", "select", "deaf"}
    /\ conn[c] = "idle"
    /\ conn' = [conn EXCEPT ![c] = "pending"]
    /\ request' = [request EXCEPT ![c] = req]
    /\ UNCHANGED << daemon, entry, loop, runtime, signal, shutdowns, stopRequested, served >>
    /\ UNCHANGED rpcVars

\* the loop awaiting serve_connection itself: it accepts only when no
\* connection is still being served
Mut_Accept_serial(c) ==
    /\ loop = "select"
    /\ conn[c] = "pending"
    /\ \A d \in Conns : conn[d] \notin {"spawned", "serving"}
    /\ conn' = [conn EXCEPT ![c] = "spawned"]
    /\ UNCHANGED << daemon, entry, loop, runtime, signal, shutdowns, stopRequested,
                    request, served >>
    /\ UNCHANGED rpcVars

\* select!: listener.accept() returns Ok and a task is spawned for the stream
Accept(c) ==
    /\ loop = "select"
    /\ conn[c] = "pending"
    /\ conn' = [conn EXCEPT ![c] = "spawned"]
    /\ UNCHANGED << daemon, entry, loop, runtime, signal, shutdowns, stopRequested,
                    request, served >>
    /\ UNCHANGED rpcVars

\* select!: listener.accept() returns Err; the pattern Ok(..) does not match,
\* the branch is disabled and the select! goes on waiting for recv() only
AcceptError ==
    /\ loop = "select"
    /\ loop' = "deaf"
    /\ UNCHANGED << daemon, entry, runtime, signal, shutdowns, stopRequested,
                    conn, request, served >>
    /\ UNCHANGED rpcVars

\* select!: recv() completes; the loop breaks and run_event_loop returns
ObserveShutdown ==
    /\ loop \in {"select", "deaf"}
    /\ signal
    /\ loop' = "exited"
    /\ signal' = FALSE
    /\ entry' = IF entry = "listen_running" THEN "listen_ok" ELSE entry
    /\ UNCHANGED << daemon, runtime, shutdowns, stopRequested, conn, request, served >>
    /\ UNCHANGED rpcVars

\* block_on has returned: the runtime is dropped, and with it every task
\* that has not finished
DropRuntime ==
    /\ loop = "exited"
    /\ runtime = "alive"
    /\ runtime' = "dropped"
    /\ conn' = [c \in Conns |-> IF conn[c] \in {"spawned", "serving"} THEN "cancelled"
                                ELSE conn[c]]
    /\ UNCHANGED << daemon, entry, loop, signal, shutdowns, stopRequested, request, served >>
    /\ UNCHANGED rpcVars

\* the connection task reads the request and calls the service function
TaskReceive(c) ==
    /\ runtime = "alive"
    /\ conn[c] = "spawned"
    /\ conn' = [conn EXCEPT ![c] = "serving"]
    /\ UNCHANGED << daemon, entry, loop, runtime, signal, shutdowns, stopRequested,
                    request, served >>
    /\ UNCHANGED rpcVars

\* the task answering whichever request is being served at the moment
Mut_TaskRespond_shared_request(c) ==
    /\ runtime = "alive"
    /\ conn[c] = "serving"
    /\ conn' = [conn EXCEPT ![c] = "responded"]
    /\ served' = [served EXCEPT ![c] =
                    handle_request(request[CHOOSE d \in Conns : conn[d] = "serving"])]
    /\ UNCHANGED << daemon, entry, loop, runtime, signal, shutdowns, stopRequested, request >>
    /\ UNCHANGED rpcVars

\* a task whose error response is propagated to the loop and ends it
Mut_TaskRespond_error_ends_loop(c) ==
    /\ runtime = "alive"
    /\ conn[c] = "serving"
    /\ conn' = [conn EXCEPT ![c] = "responded"]
    /\ served' = [served EXCEPT ![c] = handle_request(request[c])]
    /\ loop' = IF handle_request(request[c]).response.status >= 400 THEN "exited" ELSE loop
    /\ UNCHANGED << daemon, entry, runtime, signal, shutdowns, stopRequested, request >>
    /\ UNCHANGED rpcVars

\* handle_request returns and the response is written to the connection
TaskRespond(c) ==
    /\ runtime = "alive"
    /\ conn[c] = "serving"
    /\ conn' = [conn EXCEPT ![c] = "responded"]
    /\ served' = [served EXCEPT ![c] = handle_request(request[c])]
    /\ UNCHANGED << daemon, entry, loop, runtime, signal, shutdowns, stopRequested, request >>
    /\ UNCHANGED rpcVars

Next ==
    \/ \E parses \in BOOLEAN : New(parses)
    \/ \E runtimeOk, bindOk \in BOOLEAN : Start(runtimeOk, bindOk)
    \/ \E runtimeOk, bindOk \in BOOLEAN : ListenBlocking(runtimeOk, bindOk)
    \/ Subscribe
    \/ Shutdown
    \/ \E c \in Conns : \E req \in RequestsOf(c) : Connect(c, req)
    \/ \E c \in Conns : Accept(c)
    \/ AcceptError
    \/ ObserveShutdown
    \/ DropRuntime
    \/ \E c \in Conns : TaskReceive(c)
    \/ \E c \in Conns : TaskRespond(c)

Spec == Init /\ [][Next]_vars

\* the runtime schedules every thread and every task that can take a step
Fairness ==
    /\ WF_vars(Subscribe)
    /\ WF_vars(ObserveShutdown)
    /\ WF_vars(DropRuntime)
    /\ \A c \in Conns : WF_vars(Accept(c))
    /\ \A c \in Conns : WF_vars(TaskReceive(c))
    /\ \A c \in Conns : WF_vars(TaskRespond(c))

FairSpec == Spec /\ Fairness

\* the daemon with clients that send only requests answered with an error
FaultNext ==
    \/ \E parses \in BOOLEAN : New(parses)
    \/ \E runtimeOk, bindOk \in BOOLEAN : Start(runtimeOk, bindOk)
    \/ \E runtimeOk, bindOk \in BOOLEAN : ListenBlocking(runtimeOk, bindOk)
    \/ Subscribe
    \/ Shutdown
    \/ \E c \in Conns : \E req \in FaultyRequestsOf(c) : Connect(c, req)
    \/ \E c \in Conns : Accept(c)
    \/ AcceptError
    \/ ObserveShutdown
    \/ DropRuntime
    \/ \E c \in Conns : TaskReceive(c)
    \/ \E c \in Conns : TaskRespond(c)

FaultSpec == Init /\ [][FaultNext]_vars

(***************************************************************************)
(* What a request text says, read off the text itself.                     *)
(***************************************************************************)
\* the value has the shape of a request: jsonrpc and method are strings
TextIsRequest(item) ==
    /\ item.form \in {"object", "tuple"}
    /\ item.jsonrpc # None /\ item.jsonrpc[1].t = "str"
    /\ item.method # None /\ item.method[1].t = "str"
    /\ (item.form = "tuple" => item.params # None /\ item.id # None)

\* ... and it states version 2.0 and a method name
TextValid(item) ==
    /\ TextIsRequest(item)
    /\ item.jsonrpc[1].s = "2.0"
    /\ item.method[1].s # ""

\* the request carries an id (a request whose id member is null reaches
\* handle_single with id None, like one without the member)
TextHasId(item) == item.id \notin {None, Some(JNull)}

\* the params the handler is given for it
TextParams(item) == IF item.params \in {None, Some(JNull)} THEN None ELSE item.params

\* the handler's answer to it
TextHandled(item) == handle(item.method[1].s, TextParams(item))

TextInvocation(item) == [method |-> item.method[1].s, params |-> TextParams(item)]

VersionMessage == JStr("jsonrpc field must be '2.0'")
MethodMessage == JStr("method field cannot be empty")

\* the serialized response is the answer to the item
AnswersItem(resp, item) ==
    /\ resp.jsonrpc = "2.0"
    /\ resp.id = item.id[1]
    /\ ("result" \in resp.keys) # ("error" \in resp.keys)
    /\ ("result" \in resp.keys) <=> TextHandled(item).ok
    /\ TextHandled(item).ok => resp.result = TextHandled(item).val
    /\ ~TextHandled(item).ok => resp.error = SerError(TextHandled(item).err)

\* the output is one error object with a null id and the code given
IsTopLevelError(out, code) ==
    /\ out.kind = "object"
    /\ Len(out.elems) = 1
    /\ out.elems[1].keys = {"jsonrpc", "error", "id"}
    /\ out.elems[1].id = JNull
    /\ out.elems[1].error.code = code
    /\ out.elems[1].error.message = ErrorCode_message(code)

(***************************************************************************)
(* Properties of the service.                                              *)
(***************************************************************************)
\* C1: a valid single request that carries an id gets exactly one response
\* object; its id is the request's id, and exactly one of result and error
\* is in it: result iff the handler returned Ok, error iff it returned Err.
\* No response of any output carries both or neither.
C1_ResponseEchoesId ==
    called =>
      /\ \A k \in 1..Len(output.elems) :
            ("result" \in output.elems[k].keys) # ("error" \in output.elems[k].keys)
      /\ (raw.kind = "single" /\ TextValid(raw.items[1]) /\ TextHasId(raw.items[1])) =>
            /\ output.kind = "object"
            /\ Len(output.elems) = 1
            /\ AnswersItem(output.elems[1], raw.items[1])

C1_Witness ==
    /\ called
    /\ raw.kind = "single" /\ TextValid(raw.items[1]) /\ TextHasId(raw.items[1])
    /\ raw.items[1].id = Some(JNum(2))
    /\ output.kind = "object"
    /\ "result" \in output.elems[1].keys

\* C2 as stated: a single request without an id gives the empty string and
\* one handler invocation, whatever its method string is.
C2_NotificationAnyMethod ==
    (/\ called
     /\ raw.kind = "single"
     /\ TextIsRequest(raw.items[1])
     /\ raw.items[1].jsonrpc[1].s = "2.0"
     /\ raw.items[1].id = None) =>
        /\ output = EmptyString
        /\ Len(invocations) = 1

\* C2 amended: a single request without an id that passes validate (version
\* 2.0, non-empty method) gives the empty string, whether the handler
\* succeeds or fails, and the handler is invoked exactly once, with the
\* request's method and params.
C2_ValidNotificationSilent ==
    (/\ called
     /\ raw.kind = "single"
     /\ TextValid(raw.items[1])
     /\ raw.items[1].id = None) =>
        /\ output = EmptyString
        /\ invocations = << TextInvocation(raw.items[1]) >>

C2_Witness ==
    /\ called
    /\ raw.kind = "single"
    /\ TextValid(raw.items[1])
    /\ raw.items[1].id = None
    /\ ~TextHandled(raw.items[1]).ok
    /\ output = EmptyString
    /\ Len(invocations) = 1

\* the members of a batch that are no notifications, in input order
NonNotifications(items) == SelectSeq(items, TextHasId)

\* C3: for a valid batch of N requests of which M are notifications the
\* output holds N-M responses, the i-th of them answering the i-th request
\* that is no notification (an empty string when N = M).
C3_BatchOrder ==
    (/\ called
     /\ raw.kind = "array"
     /\ raw.items # << >>
     /\ \A k \in 1..Len(raw.items) : TextValid(raw.items[k])) =>
        LET nn == NonNotifications(raw.items)
        IN /\ Len(output.elems) = Len(nn)
           /\ output.kind = (IF nn = << >> THEN "empty" ELSE "array")
           /\ \A i \in 1..Len(nn) : AnswersItem(output.elems[i], nn[i])

C3_Witness ==
    /\ called
    /\ raw.kind = "array"
    /\ Len(raw.items) = 3
    /\ \A k \in 1..3 : TextValid(raw.items[k])
    /\ raw.items[1].id = Some(JNum(2))
    /\ raw.items[2].id = None
    /\ raw.items[3].id = Some(JNum(1))
    /\ Len(output.elems) = 2

\* the first member, in input order, that breaks a validation rule
FirstInvalidItem(items) ==
    items[CHOOSE k \in 1..Len(items) :
            /\ ~TextValid(items[k])
            /\ \A l \in 1..(k - 1) : TextValid(items[l])]

\* the data string validate attaches for an invalid member
InvalidMessage(item) ==
    IF item.jsonrpc[1].s # "2.0" THEN VersionMessage ELSE MethodMessage

\* C7: an array of requests with an invalid member is rejected as a whole:
\* from_json fails with the InvalidRequest error of the first invalid member
\* and the output is that one error object (no array, no entry per member)
\* with a null id, however many valid members precede or follow it.
C7_BatchAllOrNothing ==
    (/\ called
     /\ raw.kind = "array"
     /\ \A k \in 1..Len(raw.items) : TextIsRequest(raw.items[k])
     /\ \E k \in 1..Len(raw.items) : ~TextValid(raw.items[k])) =>
        /\ ~from_json(raw).ok
        /\ from_json(raw).err.code = InvalidRequest
        /\ from_json(raw).err.data = Some(InvalidMessage(FirstInvalidItem(raw.items)))
        /\ IsTopLevelError(output, InvalidRequest)
        /\ output.elems[1].error.data = InvalidMessage(FirstInvalidItem(raw.items))

C7_Witness ==
    /\ called
    /\ raw.kind = "array"
    /\ Len(raw.items) = 3
    /\ TextValid(raw.items[1])
    /\ raw.items[2].jsonrpc = Some(JStr("2.0")) /\ raw.items[2].method = Some(JStr(""))
    /\ raw.items[3].jsonrpc = Some(JStr("1.0")) /\ raw.items[3].method = Some(JStr("tx_decode"))
    /\ output.kind = "object"
    /\ output.elems[1].error.data = MethodMessage

\* C8: the empty array is answered by one error object with code -32600 and
\* a null id, never by an empty string or an empty array.
C8_EmptyBatchInvalid ==
    (called /\ raw = Body("array", << >>)) =>
        /\ IsTopLevelError(output, -32600)
        /\ output.elems[1].error.data = JStr("batch request cannot be empty")

C8_Witness ==
    /\ called
    /\ raw = Body("array", << >>)
    /\ output.kind = "object"

\* C9: a text that is neither a request nor an array of requests is answered
\* by one error object with code -32700, a null id and no data member.
C9_ParseError ==
    (/\ called
     /\ ~(raw.kind = "single" /\ TextIsRequest(raw.items[1]))
     /\ ~(raw.kind = "array" /\ \A k \in 1..Len(raw.items) : TextIsRequest(raw.items[k]))) =>
        /\ IsTopLevelError(output, -32700)
        /\ output.elems[1].error.keys = {"code", "message"}
        /\ invocations = << >>

C9_Witness ==
    /\ called
    /\ raw.kind = "array"
    /\ Len(raw.items) = 2
    /\ TextValid(raw.items[1])
    /\ raw.items[2] = ScalarItem
    /\ output.kind = "object"

\* C10: a request is rejected with code -32600 exactly when its jsonrpc is
\* not "2.0" or its method is empty; the version is checked first, so a
\* request breaking both rules reports the version; every other request
\* passes and is dispatched.
C10_ValidateRules ==
    (/\ called
     /\ raw.kind = "single"
     /\ TextIsRequest(raw.items[1])) =>
        LET badVersion == raw.items[1].jsonrpc[1].s # "2.0"
            badMethod == raw.items[1].method[1].s = ""
            resp == output.elems[1]
        IN /\ (badVersion \/ badMethod) <=>
                (output.kind = "object" /\ "error" \in resp.keys /\ resp.error.code = -32600)
           /\ (badVersion \/ badMethod) =>
                /\ IsTopLevelError(output, -32600)
                /\ resp.error.data = (IF badVersion THEN VersionMessage ELSE MethodMessage)
                /\ invocations = << >>
           /\ ~(badVersion \/ badMethod) =>
                invocations = << TextInvocation(raw.items[1]) >>

C10_Witness ==
    /\ called
    /\ raw.kind = "single"
    /\ raw.items[1].jsonrpc = Some(JStr("1.0"))
    /\ raw.items[1].method = Some(JStr(""))
    /\ output.kind = "object"
    /\ output.elems[1].error.data = VersionMessage

(***************************************************************************)
(* Properties of the daemon.                                               *)
(***************************************************************************)
\* C4: once shutdown() has been called on a started daemon, the accept loop
\* eventually exits, also when the call comes right after start() returned,
\* before the loop's thread has subscribed to the signal.
C4_ShutdownStopsLoop == stopRequested ~> (loop = "exited")

\* C5: no connection task that was spawned is cancelled by the shutdown: it
\* is never dropped unfinished when the loop has exited and block_on returns.
C5_TasksRunToCompletion == \A c \in Conns : conn[c] # "cancelled"

\* the client sent one valid request with an id to the RPC endpoint
SentSingleRequest(req) ==
    /\ req.method = "POST"
    /\ req.path \in {"/", "/rpc"}
    /\ req.readable /\ req.utf8
    /\ req.text.kind = "single"
    /\ TextValid(req.text.items[1])
    /\ TextHasId(req.text.items[1])

\* C6: under every interleaving of accepts and task steps, the response a
\* connection gets is the one computed from its own request: a connection
\* that sent a valid single request with an id gets status 200 and the one
\* response object answering that request, and no response carries the id
\* of another connection's request.
C6_OwnResponseOnly ==
    \A c \in Conns :
      /\ conn[c] # "responded" => served[c] = NotServed
      /\ conn[c] = "responded" =>
           /\ \A k \in 1..Len(served[c].response.json.elems) :
                 served[c].response.json.elems[k].id \in {JNull, JNum(c)}
           /\ SentSingleRequest(request[c]) =>
                 /\ served[c].response.status = 200
                 /\ served[c].response.json.kind = "object"
                 /\ Len(served[c].response.json.elems) = 1
                 /\ AnswersItem(served[c].response.json.elems[1], request[c].text.items[1])

C6_Witness ==
    /\ \A c \in {1, 2} :
         /\ conn[c] = "responded"
         /\ SentSingleRequest(request[c])
         /\ served[c].response.json.elems[1].id = JNum(c)
    /\ served[1].response.json.elems[1].result = JRes("tx_decode", 1)
    /\ served[2].response.json.elems[1].result = JRes("tx_decode", 2)

(***************************************************************************)
(* Properties of dispatch to the handler.                                  *)
(***************************************************************************)
\* the method named in the text is none of the registered names
TextUnknownMethod(item) == item.method[1].s \notin RpcMethodNames

\* the response is the MethodNotFound error carrying the item's id
IsMethodNotFound(resp, item) ==
    /\ resp.keys = {"jsonrpc", "error", "id"}
    /\ resp.id = item.id[1]
    /\ resp.error.keys = {"code", "message"}
    /\ resp.error.code = -32601
    /\ resp.error.message = "Method not found"

\* C11: a valid request with an id whose method is not registered is answered
\* by the error -32601 carrying its id, as a single call and as a member of a
\* batch; in a batch every other member is answered as it is when sent alone.
C11_MethodNotFound ==
    called =>
      /\ (raw.kind = "single" /\ TextValid(raw.items[1]) /\ TextHasId(raw.items[1])
            /\ TextUnknownMethod(raw.items[1])) =>
            /\ output.kind = "object"
            /\ Len(output.elems) = 1
            /\ IsMethodNotFound(output.elems[1], raw.items[1])
      /\ (raw.kind = "array" /\ raw.items # << >>
            /\ \A k \in 1..Len(raw.items) : TextValid(raw.items[k])) =>
            LET nn == NonNotifications(raw.items)
            IN /\ Len(output.elems) = Len(nn)
               /\ \A i \in 1..Len(nn) :
                    IF TextUnknownMethod(nn[i])
                    THEN IsMethodNotFound(output.elems[i], nn[i])
                    ELSE << output.elems[i] >> = handle_raw(Body("single", << nn[i] >>)).out.elems

C11_Witness ==
    /\ called
    /\ raw.kind = "array"
    /\ Len(raw.items) = 3
    /\ \A k \in 1..3 : TextValid(raw.items[k]) /\ TextHasId(raw.items[k])
    /\ TextUnknownMethod(raw.items[2])
    /\ ~TextUnknownMethod(raw.items[1])
    /\ ~TextUnknownMethod(raw.items[3])
    /\ output.kind = "array"
    /\ output.elems[2].error.code = -32601
    /\ "result" \in output.elems[1].keys
    /\ "result" \in output.elems[3].keys

\* C18 as stated: a valid request is a notification (no output) exactly when
\* its text has no id member; one whose id member is null gets a response.
C18_NotificationIffIdAbsent ==
    (/\ called
     /\ raw.kind = "single"
     /\ raw.items[1].form = "object"
     /\ TextValid(raw.items[1])) =>
        (output = EmptyString <=> raw.items[1].id = None)

\* C19 as stated: an error answering a request that parsed with an id
\* carries that id, validation failures (wrong version, empty method)
\* included.
C19_EveryErrorCarriesRequestId ==
    (/\ called
     /\ raw.kind = "single"
     /\ TextIsRequest(raw.items[1])
     /\ TextHasId(raw.items[1])
     /\ output.kind = "object"
     /\ "error" \in output.elems[1].keys) =>
        output.elems[1].id = raw.items[1].id[1]

\* C19 amended: an error returned by the handler is answered with the id of
\* the request it belongs to, alone or in a batch; every error found by
\* from_json (a text that does not parse, an empty batch, and also a request
\* that parses with an id and fails validation) is answered by one top-level
\* error object with a null id, and nothing is dispatched.
C19_ErrorAttribution ==
    called =>
      /\ ~from_json(raw).ok =>
            /\ output.kind = "object"
            /\ Len(output.elems) = 1
            /\ output.elems[1].keys = {"jsonrpc", "error", "id"}
            /\ output.elems[1].id = JNull
            /\ output.elems[1].error = SerError(from_json(raw).err)
            /\ invocations = << >>
      /\ (raw.kind = "single" /\ TextIsRequest(raw.items[1]) /\ ~TextValid(raw.items[1])) =>
            IsTopLevelError(output, -32600)
      /\ (/\ raw.kind = "single"
          /\ TextValid(raw.items[1])
          /\ TextHasId(raw.items[1])
          /\ ~TextHandled(raw.items[1]).ok) =>
            /\ output.kind = "object"
            /\ output.elems[1].keys = {"jsonrpc", "error", "id"}
            /\ output.elems[1].id = raw.items[1].id[1]
            /\ output.elems[1].error = SerError(TextHandled(raw.items[1]).err)
      /\ (/\ raw.kind = "array"
          /\ raw.items # << >>
          /\ \A k \in 1..Len(raw.items) : TextValid(raw.items[k])) =>
            LET nn == NonNotifications(raw.items)
            IN \A i \in 1..Len(nn) :
                  ~TextHandled(nn[i]).ok =>
                      /\ "error" \in output.elems[i].keys
                      /\ output.elems[i].id = nn[i].id[1]

C19_Witness ==
    /\ called
    /\ raw.kind = "single"
    /\ raw.items[1].form = "object"
    /\ raw.items[1].jsonrpc = Some(JStr("1.0"))
    /\ raw.items[1].method = Some(JStr("echo"))
    /\ raw.items[1].id = Some(JNum(1))
    /\ IsTopLevelError(output, -32600)

(***************************************************************************)
(* Properties of the HTTP transport.                                       *)
(***************************************************************************)
\* the request reaches the dispatcher: POST, an RPC path, a body that can be
\* collected and is UTF-8
ReachesDispatcher(req) ==
    /\ req.method = "POST"
    /\ req.path \in {"/", "/rpc"}
    /\ req.readable
    /\ req.utf8

\* C12: the text the dispatcher returns decides the HTTP response: the empty
\* string gives 204 with an empty body and no Content-Type; every other text,
\* a JSON-RPC error object included, gives 200 with Content-Type
\* application/json and that text as the body.
C12_StatusFromOutput ==
    (handled /\ ReachesDispatcher(httpIn)) =>
        LET out == handle_raw(httpIn.text).out
        IN IF out = EmptyString
           THEN httpOut.response = HttpResponse(204, None, "", EmptyString)
           ELSE httpOut.response = HttpResponse(200, Some("application/json"), "", out)

C12_Witness ==
    /\ handled
    /\ ReachesDispatcher(httpIn)
    /\ httpIn.text = MalformedBody
    /\ httpOut.response.status = 200
    /\ httpOut.response.json.elems[1].error.code = -32700

\* C13: every request whose method is not POST is answered 405 Method Not
\* Allowed, whatever its path and body; its body is not read and neither the
\* dispatcher nor the handler is invoked.
C13_NonPostIs405 ==
    (handled /\ httpIn.method # "POST") =>
        /\ httpOut.response = HttpResponse(405, None, "Method Not Allowed", EmptyString)
        /\ ~httpOut.body_read
        /\ ~httpOut.dispatched
        /\ httpOut.invoked = << >>

C13_Witness ==
    /\ handled
    /\ httpIn.method = "GET"
    /\ httpIn.path = "/other"
    /\ httpIn.readable /\ httpIn.utf8
    /\ httpIn.text.kind = "single" /\ TextValid(httpIn.text.items[1])
    /\ httpOut.response.status = 405

\* C14 as stated: every request whose path is neither "/" nor "/rpc" is
\* answered 404 Not Found.
C14_OtherPathIs404 ==
    (handled /\ httpIn.path \notin {"/", "/rpc"}) => httpOut.response.status = 404

\* C14 amended: every POST request whose path is neither "/" nor "/rpc" is
\* answered 404 Not Found, without its body being read or dispatched (a
\* request with another method is answered 405 first, whatever its path).
C14_PostOtherPathIs404 ==
    (handled /\ httpIn.method = "POST" /\ httpIn.path \notin {"/", "/rpc"}) =>
        /\ httpOut.response = HttpResponse(404, None, "Not Found", EmptyString)
        /\ ~httpOut.body_read
        /\ ~httpOut.dispatched
        /\ httpOut.invoked = << >>

C14_Witness ==
    /\ handled
    /\ httpIn.method = "POST"
    /\ httpIn.path = "/rpc/"
    /\ httpIn.readable /\ httpIn.utf8
    /\ httpIn.text.kind = "single" /\ TextValid(httpIn.text.items[1])
    /\ httpOut.response.status = 404

\* C15: a request is answered 405, 404 or 400 exactly when it does not reach
\* the dispatcher, and for it handle_raw is not called and the handler is
\* invoked zero times; a POST to an RPC path whose body cannot be read or is
\* not UTF-8 is answered 400 with the dispatcher not invoked.
C15_TransportErrorsStayOut ==
    handled =>
      /\ httpOut.response.status \in {405, 404, 400} <=> ~ReachesDispatcher(httpIn)
      /\ httpOut.response.status \in {405, 404, 400} =>
            /\ ~httpOut.dispatched
            /\ httpOut.invoked = << >>
      /\ (httpIn.method = "POST" /\ httpIn.path \in {"/", "/rpc"}
            /\ ~(httpIn.readable /\ httpIn.utf8)) =>
            /\ httpOut.response = HttpResponse(400, None, "Bad Request", EmptyString)
            /\ ~httpOut.dispatched
            /\ httpOut.invoked = << >>

C15_Witness ==
    /\ handled
    /\ httpIn.method = "POST"
    /\ httpIn.path = "/"
    /\ httpIn.readable /\ ~httpIn.utf8
    /\ httpIn.text.kind = "single"
    /\ TextValid(httpIn.text.items[1])
    /\ httpOut.response.status = 400
    /\ httpOut.body_read

(***************************************************************************)
(* Properties of the daemon's life cycle.                                  *)
(***************************************************************************)
\* a step that is a call of shutdown()
ShutdownStep == shutdowns' # shutdowns

\* a step in which the accept loop leaves its select!
LoopExitStep == loop # "exited" /\ loop' = "exited"

\* C16: shutdown() can be called any number of times, before, during and
\* after the loop runs and with no subscriber: the call always completes,
\* returns without the loop having to stop (it changes nothing but the
\* signal), and a loop that has exited never exits again.
C16_ShutdownIdempotentNonBlocking ==
    /\ []((daemon = "constructed" /\ shutdowns < MaxShutdowns) => ENABLED Shutdown)
    /\ [][ /\ ShutdownStep =>
                /\ shutdowns' = shutdowns + 1
                /\ UNCHANGED << daemon, entry, loop, runtime, conn, request, served >>
           /\ loop = "exited" => (loop' = "exited" /\ ~signal')
           /\ LoopExitStep => (signal /\ ~signal') ]_vars

C16_Witness ==
    /\ shutdowns >= 2
    /\ stopRequested
    /\ loop = "exited"
    /\ daemon = "constructed"

\* C17: when new, start or listen_blocking fails to obtain the socket, the
\* caller gets the error (an entry point returns Ok or keeps running only
\* with a loop in existence), no loop thread exists, no runtime is kept and
\* no connection is ever made or accepted.
C17_SocketFailureReported ==
    /\ daemon = "failed" => entry = "none"
    /\ entry \in {"start_ok", "listen_running", "listen_ok"} => loop # "none"
    /\ (daemon = "failed" \/ entry \in {"start_err", "listen_err"}) =>
          /\ loop = "none"
          /\ runtime = "none"
          /\ ~signal
          /\ \A c \in Conns : conn[c] = "idle" /\ served[c] = NotServed

C17_Witness ==
    /\ daemon = "constructed"
    /\ entry = "start_err"
    /\ shutdowns >= 1
    /\ loop = "none"

\* C20: with any number of connection tasks unfinished the loop can still
\* accept a further pending connection and can still observe a shutdown
\* signal, and the step in which it exits leaves every task where it was.
C20_LoopNeverWaitsForTasks ==
    /\ [](\A c \in Conns : (loop = "select" /\ conn[c] = "pending") => ENABLED Accept(c))
    /\ []((loop \in {"select", "deaf"} /\ signal) => ENABLED ObserveShutdown)
    /\ [][LoopExitStep => conn' = conn]_vars

C20_Witness ==
    /\ conn[1] = "serving"
    /\ conn[2] = "spawned"
    /\ loop = "exited"
    /\ runtime = "alive"

(***************************************************************************)
(* Further properties of the service.                                      *)
(***************************************************************************)
\* C21: the output of a valid single call is the empty string (when the
\* request has no id) or one bare object (when it carries an id); the output
\* of a valid batch is the empty string when no member carries an id and
\* otherwise an array of at least one response, an array also when exactly
\* one response remains: never a bare object, never an empty array.
C21_OutputShapeFollowsCall ==
    called =>
      /\ (raw.kind = "single" /\ TextValid(raw.items[1])) =>
            /\ output = EmptyString \/ (output.kind = "object" /\ Len(output.elems) = 1)
            /\ raw.items[1].id = None => output = EmptyString
            /\ TextHasId(raw.items[1]) => output.kind = "object"
      /\ (/\ raw.kind = "array"
          /\ raw.items # << >>
          /\ \A k \in 1..Len(raw.items) : TextValid(raw.items[k])) =>
            /\ output.kind \in {"empty", "array"}
            /\ output.kind = "array" => Len(output.elems) >= 1
            /\ output.kind = "empty" => output.elems = << >>
            /\ (\A k \in 1..Len(raw.items) : raw.items[k].id = None) => output = EmptyString
            /\ (\E k \in 1..Len(raw.items) : TextHasId(raw.items[k])) =>
                  /\ output.kind = "array"
                  /\ Len(output.elems) = Len(NonNotifications(raw.items))

C21_Witness ==
    /\ called
    /\ raw.kind = "array"
    /\ Len(raw.items) = 2
    /\ \A k \in 1..2 : TextValid(raw.items[k])
    /\ raw.items[1].id = None
    /\ raw.items[2].id = Some(JNum(1))
    /\ output.kind = "array"
    /\ Len(output.elems) = 1

(***************************************************************************)
(* Further properties of the daemon.                                       *)
(***************************************************************************)
\* C22: listen_blocking has returned Ok only with the loop exited on the
\* shutdown signal, has returned Err only with no loop in existence, and
\* while it has not returned the loop is listening: a fatal I/O error of
\* the loop makes it return Err.
C22_ListenBlockingReturns ==
    /\ entry = "listen_ok" => loop = "exited"
    /\ entry = "listen_err" => loop = "none"
    /\ entry = "listen_running" => loop = "select"

\* the step in which the task of connection c writes its response
TaskRespondStep(c) == conn[c] = "serving" /\ conn'[c] = "responded"

\* the request was answered with an error of the transport or of JSON-RPC
ServedError(s) ==
    \/ s.response.status \in {400, 404, 405}
    \/ /\ s.response.status = 200
       /\ s.response.json.kind = "object"
       /\ "error" \in s.response.json.elems[1].keys

\* C23: every request that is in error is answered with an error (405, 404,
\* 400 or a JSON-RPC error), and the step that answers it leaves the loop,
\* the runtime, the daemon and every other connection as they were;
\* afterwards a pending
\* connection can still be accepted and its task started, and every
\* connection that is answered gets the answer to its own request.
C23_RequestErrorsNotFatal ==
    /\ [][\A c \in Conns : TaskRespondStep(c) =>
            /\ ServedError(served'[c])
            /\ UNCHANGED << daemon, entry, loop, runtime, signal >>
            /\ \A d \in Conns \ {c} : conn'[d] = conn[d] /\ served'[d] = served[d]]_vars
    /\ [](\A c \in Conns :
            /\ (loop = "select" /\ conn[c] = "pending") => ENABLED Accept(c)
            /\ (runtime = "alive" /\ conn[c] = "spawned") => ENABLED TaskReceive(c)
            /\ conn[c] = "responded" => served[c] = handle_request(request[c]))

C23_Witness ==
    /\ loop = "select"
    /\ runtime = "alive"
    /\ conn[1] = "responded"
    /\ served[1].response.status = 400
    /\ conn[2] = "responded"
    /\ ServedError(served[2])
    /\ served[2].response.status = 200

\* the error object of resp is the error e, member for member
CarriesError(resp, e) ==
    /\ "error" \in resp.keys
    /\ "result" \notin resp.keys
    /\ resp.error.code = e.code
    /\ resp.error.message = e.message
    /\ ("data" \in resp.error.keys) <=> IsSome(e.data)
    /\ IsSome(e.data) => resp.error.data = Unwrap(e.data)
    /\ resp.error.keys \subseteq {"code", "message", "data"}

\* C24: when the handler fails for a request that carries an id, alone or
\* in a batch, the error object of its response has exactly the code, the
\* message and the data of the error the handler returned.
C24_HandlerErrorVerbatim ==
    called =>
      /\ (/\ raw.kind = "single"
          /\ TextValid(raw.items[1])
          /\ TextHasId(raw.items[1])
          /\ ~TextHandled(raw.items[1]).ok) =>
            /\ output.kind = "object"
            /\ CarriesError(output.elems[1], TextHandled(raw.items[1]).err)
      /\ (/\ raw.kind = "array"
          /\ raw.items # << >>
          /\ \A k \in 1..Len(raw.items) : TextValid(raw.items[k])) =>
            LET nn == NonNotifications(raw.items)
            IN \A i \in 1..Len(nn) :
                  ~TextHandled(nn[i]).ok =>
                      /\ output.kind = "array"
                      /\ CarriesError(output.elems[i], TextHandled(nn[i]).err)

C24_Witness ==
    /\ called
    /\ raw.kind = "single"
    /\ TextValid(raw.items[1])
    /\ raw.items[1].method = Some(JStr("tx_decode"))
    /\ raw.items[1].params = None
    /\ raw.items[1].id = Some(JNum(2))
    /\ output.kind = "object"
    /\ output.elems[1].error.code = InvalidParams
    /\ output.elems[1].error.message = "Missing parameters"

\* the text is a valid call: one valid request, or a non-empty array of
\* valid requests
TextAccepted(json) ==
    \/ json.kind = "single" /\ TextValid(json.items[1])
    \/ /\ json.kind = "array"
       /\ json.items # << >>
       /\ \A k \in 1..Len(json.items) : TextValid(json.items[k])

\* C25: for every text that is not a valid call (it does not parse, it is an
\* invalid request, an empty batch, or a batch with an invalid member
\* anywhere) the handler is invoked zero times, also for the valid members
\* before the invalid one, and the output is the one top-level error.
C25_RejectedCallDispatchesNothing ==
    (called /\ ~TextAccepted(raw)) =>
        /\ invocations = << >>
        /\ output.kind = "object"
        /\ Len(output.elems) = 1
        /\ output.elems[1].keys = {"jsonrpc", "error", "id"}
        /\ output.elems[1].id = JNull

C25_Witness ==
    /\ called
    /\ raw.kind = "array"
    /\ Len(raw.items) = 3
    /\ TextValid(raw.items[1]) /\ raw.items[1].id = None
    /\ TextValid(raw.items[2]) /\ raw.items[2].id = Some(JNum(1))
    /\ TextIsRequest(raw.items[3]) /\ ~TextValid(raw.items[3])
    /\ invocations = << >>
    /\ IsTopLevelError(output, InvalidRequest)

\* C26: for every valid call the handler is invoked exactly once for each
\* request, notifications included, one invocation after the other in input
\* order, whether or not the invocations before it failed.
C26_OneInvocationPerRequestInOrder ==
    (called /\ TextAccepted(raw)) =>
        /\ Len(invocations) = Len(raw.items)
        /\ \A k \in 1..Len(raw.items) : invocations[k] = TextInvocation(raw.items[k])

C26_Witness ==
    /\ called
    /\ raw.kind = "array"
    /\ Len(raw.items) = 3
    /\ \A k \in 1..3 : TextValid(raw.items[k])
    /\ raw.items[1].method = Some(JStr("echo")) /\ raw.items[1].id = Some(JNum(1))
    /\ raw.items[2].method = Some(JStr("tx_decode")) /\ raw.items[2].id = None
    /\ raw.items[3].method = Some(JStr("tx_decode")) /\ raw.items[3].id = Some(JNum(2))
    /\ ~TextHandled(raw.items[1]).ok
    /\ Len(invocations) = 3
    /\ Len(output.elems) = 2

\* C27: while no shutdown has been sent, a connection that arrives is
\* eventually accepted, also when listener.accept() has returned an error
\* before: the error does not stop the loop from accepting.
C27_AcceptErrorNotDeaf ==
    \A c \in Conns :
        (conn[c] = "pending" /\ shutdowns = 0) ~> (conn[c] # "pending" \/ shutdowns > 0)

====
